---- MODULE Spec2Model ----
(***************************************************************************)
(* Model of src/play.py: the turn-based obstacle course.  A State holds a  *)
(* window of two grids and the player's location; State.move scores an     *)
(* action, shifts the window by pulling the next grid off the global       *)
(* GAME_MAP, and returns (reward, next state or None).                     *)
(*                                                                         *)
(* Python tuples and lists that the code indexes from 0 (locations, action *)
(* deltas, the two-grid window, the 3x3 grids) are functions over 0..n-1,  *)
(* so grid[row][col], self.grids[1] and new_location[1] read as in the     *)
(* code.  GAME_MAP, which the code only pops from the front, is a          *)
(* sequence.  Python's None is the empty tuple.                            *)
(***************************************************************************)
EXTENDS Integers, Sequences, FiniteSets, TLC

VARIABLES
    GAME_MAP,      \* play.py:38  the global list of grids still to be pulled
    state,         \* play.py:15  main's current State, or None
    reward,        \* play.py:29  reward returned by the last move (None before)
    action,        \* play.py:28  Action of the last move (None before)
    total_moves,   \* play.py:18  number of move calls made by main
    pc,            \* position of main: "loop", "done", "aborted"; or of a harness
    course,        \* play.py:11  the game map as supplied, never changed
    ret,           \* value returned to a function harness (None in main)
    token,         \* play.py:27  the string last read at the prompt (None before)
    sims           \* the simulations of a process that runs two (None in main)

vars == <<GAME_MAP, state, reward, action, total_moves, pc, course, ret, token, sims>>

None == <<>>

\* ---------------------------------------------------------------- bounds
\* longest course (number of grids in the supplied game map)
MaxCourse == 3

\* ---------------------------------------------------------------- values
\* a Python 2-tuple / 2-element list, indexed from 0
pair(a, b) == [i \in 0..1 |-> IF i = 0 THEN a ELSE b]

\* a 3x3 grid from its three rows, indexed grid[row][col] from 0
Grid(r0, r1, r2) ==
    [r \in 0..2 |-> [c \in 0..2 |-> (CASE r = 0 -> r0 [] r = 1 -> r1 [] OTHER -> r2)[c + 1]]]

\* every 3x3 binary grid
AllGrids == [0..2 -> [0..2 -> {0, 1}]]

\* every location inside the 3x3 frame
AllLocations == {pair(r, c) : r \in 0..2, c \in 0..2}

\* class Action: (delta row, delta col)
LEFT  == pair(0, -1)
RIGHT == pair(0, 1)
JUMP  == pair(-1, 0)
DUCK  == pair(1, 0)
STAY  == pair(0, 0)

\* list(Action): the members in definition order
ActionList == <<LEFT, RIGHT, JUMP, DUCK, STAY>>

Action == {ActionList[i] : i \in 1..Len(ActionList)}

START_LOCATION == pair(1, 1)

\* State(grids, player_location)
State(grids, player_location) ==
    [grids |-> grids, player_location |-> player_location]

\* Python's builtin max and min on two integers
max(a, b) == IF a >= b THEN a ELSE b
min(a, b) == IF a <= b THEN a ELSE b

\* ------------------------------------------------------------ level data
\* maps.py is not part of the sources; courses are drawn from these grids
EmptyGrid   == Grid(<<0,0,0>>, <<0,0,0>>, <<0,0,0>>)
FullGrid    == Grid(<<1,1,1>>, <<1,1,1>>, <<1,1,1>>)
CenterGrid  == Grid(<<0,0,0>>, <<0,1,0>>, <<0,0,0>>)   \* spec scenario A
LowBarGrid  == Grid(<<0,0,0>>, <<0,0,0>>, <<1,1,1>>)   \* must be jumped
CornerGrid  == Grid(<<0,1,1>>, <<1,1,1>>, <<1,1,1>>)   \* only (0,0) open
CeilingGrid == Grid(<<1,1,1>>, <<0,1,0>>, <<0,0,0>>)   \* top row and centre

SampleGrids == {EmptyGrid, FullGrid, CenterGrid, LowBarGrid, CornerGrid, CeilingGrid}

\* ------------------------------------------------------------- State
\* _update_location that clamps at 2 but not at 0
_update_location_no_floor(player_location, act) ==
    pair(min(player_location[0] + act[0], 2), min(player_location[1] + act[1], 2))

\* State._update_location
_update_location(player_location, act) ==
    LET row        == player_location[0]
        col        == player_location[1]
        row_change == act[0]
        col_change == act[1]
        new_row    == min(max(0, row + row_change), 2)
        new_col    == min(max(0, col + col_change), 2)
    IN  pair(new_row, new_col)

mid_row == 1
bot_row == 2

\* _collides without the standing-height check
_collides_own_cell(player_location, grid) ==
    grid[player_location[0]][player_location[1]] = 1

\* State._collides
_collides(player_location, grid) ==
    LET row == player_location[0]
        col == player_location[1]
    IN  IF grid[row][col] = 1 THEN TRUE
        ELSE IF row = mid_row /\ grid[bot_row][col] = 1 THEN TRUE
        ELSE FALSE

\* the for loop of State.get_reward from its i-th iteration on:
\* TRUE iff some remaining move does not collide with the lookahead grid
RECURSIVE lookahead_loop(_, _, _)
lookahead_loop(current_location, grid, i) ==
    IF i > Len(ActionList) THEN FALSE
    ELSE IF ~ _collides(_update_location(current_location, ActionList[i]), grid) THEN TRUE
    ELSE lookahead_loop(current_location, grid, i + 1)

\* get_reward with the lookahead taken from the location before the action
get_reward_from_start(self, act) ==
    LET new_location == _update_location(self.player_location, act)
    IN  IF _collides(new_location, self.grids[0]) THEN 0
        ELSE IF self.grids[1] = None THEN 1
        ELSE IF lookahead_loop(self.player_location, self.grids[1], 1) THEN 2
        ELSE 1

\* get_reward that takes its lookahead from the head of the global list
get_reward_peek(self, act) ==
    LET new_location == _update_location(self.player_location, act)
        ahead        == IF Len(GAME_MAP) = 0 THEN None ELSE GAME_MAP[1]
    IN  IF _collides(new_location, self.grids[0]) THEN 0
        ELSE IF ahead = None THEN 1
        ELSE IF lookahead_loop(new_location, ahead, 1) THEN 2
        ELSE 1

\* State.get_reward
get_reward(self, act) ==
    LET new_location     == _update_location(self.player_location, act)
        total_reward     == 1
        current_location == new_location
    IN  IF _collides(new_location, self.grids[0]) THEN 0
        ELSE IF self.grids[1] = None THEN total_reward
        ELSE IF lookahead_loop(current_location, self.grids[1], 1) THEN total_reward + 1
        ELSE total_reward

\* the value of GAME_MAP in the module as imported, before INIT_GAME: Python's
\* None, kept apart from the empty list []; a course holds grids only, so no
\* list INIT_GAME is given equals it
GAME_MAP_None == <<None>>

\* the exception of NEXT_GRID's assert on a GAME_MAP that is None
AssertionError == <<"AssertionError">>

\* NEXT_GRID that never removes the head
NEXT_GRID_peek(gm, drop) ==
    IF gm = GAME_MAP_None THEN [ret |-> AssertionError, GAME_MAP |-> gm]
    ELSE IF Len(gm) = 0 THEN [ret |-> None, GAME_MAP |-> gm]
    ELSE [ret |-> gm[1], GAME_MAP |-> gm]

\* NEXT_GRID that removes the head but returns nothing (list.remove for list.pop)
NEXT_GRID_remove(gm, drop) ==
    IF gm = GAME_MAP_None THEN [ret |-> AssertionError, GAME_MAP |-> gm]
    ELSE IF Len(gm) = 0 THEN [ret |-> None, GAME_MAP |-> gm]
    ELSE IF drop THEN [ret |-> None, GAME_MAP |-> Tail(gm)]
    ELSE [ret |-> gm[1], GAME_MAP |-> gm]

\* NEXT_GRID that pops from the back (list.pop() for list.pop(0))
NEXT_GRID_pop_last(gm, drop) ==
    IF gm = GAME_MAP_None THEN [ret |-> AssertionError, GAME_MAP |-> gm]
    ELSE IF Len(gm) = 0 THEN [ret |-> None, GAME_MAP |-> gm]
    ELSE IF drop THEN [ret |-> gm[Len(gm)], GAME_MAP |-> SubSeq(gm, 1, Len(gm) - 1)]
    ELSE [ret |-> gm[1], GAME_MAP |-> gm]

\* NEXT_GRID on the global list gm: the value returned and the list afterwards
NEXT_GRID(gm, drop) ==
    IF gm = GAME_MAP_None THEN [ret |-> AssertionError, GAME_MAP |-> gm]
    ELSE IF Len(gm) = 0 THEN [ret |-> None, GAME_MAP |-> gm]
    ELSE IF drop THEN [ret |-> Head(gm), GAME_MAP |-> Tail(gm)]
    ELSE [ret |-> gm[1], GAME_MAP |-> gm]

stand_row == 1

\* the last-state test with any() in place of all()
is_last_state_any(new_grids) == \E i \in 0..1 : new_grids[i] = None

\* a last-state test that never ends the run
is_last_state_never(new_grids) == FALSE

\* the last-state test of State.move
is_last_state(new_grids) == \A i \in 0..1 : new_grids[i] = None

\* move that pulls the next grid before testing for a crash
move_pull_first(self, act, gm) ==
    LET rew          == get_reward(self, act)
        new_location == pair(stand_row, _update_location(self.player_location, act)[1])
        pulled       == NEXT_GRID(gm, TRUE)
        new_grids    == pair(self.grids[1], pulled.ret)
    IN  IF pulled.ret = AssertionError
        THEN [reward |-> None, state |-> None, GAME_MAP |-> gm,
              raises |-> AssertionError]
        ELSE IF rew = 0
        THEN [reward |-> rew, state |-> None, GAME_MAP |-> pulled.GAME_MAP,
              raises |-> None]
        ELSE IF is_last_state(new_grids)
        THEN [reward |-> rew, state |-> None, GAME_MAP |-> pulled.GAME_MAP,
              raises |-> None]
        ELSE [reward |-> rew, state |-> State(new_grids, new_location),
              GAME_MAP |-> pulled.GAME_MAP, raises |-> None]

\* move that keeps the old resolution grid in the new window
move_keep_window(self, act, gm) ==
    LET rew          == get_reward(self, act)
        new_location == pair(stand_row, _update_location(self.player_location, act)[1])
        pulled       == NEXT_GRID(gm, TRUE)
        new_grids    == pair(self.grids[0], pulled.ret)
    IN  IF rew = 0
        THEN [reward |-> rew, state |-> None, GAME_MAP |-> gm, raises |-> None]
        ELSE IF pulled.ret = AssertionError
        THEN [reward |-> None, state |-> None, GAME_MAP |-> gm,
              raises |-> AssertionError]
        ELSE IF is_last_state(new_grids)
        THEN [reward |-> rew, state |-> None, GAME_MAP |-> pulled.GAME_MAP,
              raises |-> None]
        ELSE [reward |-> rew, state |-> State(new_grids, new_location),
              GAME_MAP |-> pulled.GAME_MAP, raises |-> None]

\* move that stores the raw candidate, posture included
move_no_reset(self, act, gm) ==
    LET rew          == get_reward(self, act)
        new_location == _update_location(self.player_location, act)
        pulled       == NEXT_GRID(gm, TRUE)
        new_grids    == pair(self.grids[1], pulled.ret)
    IN  IF rew = 0
        THEN [reward |-> rew, state |-> None, GAME_MAP |-> gm, raises |-> None]
        ELSE IF pulled.ret = AssertionError
        THEN [reward |-> None, state |-> None, GAME_MAP |-> gm,
              raises |-> AssertionError]
        ELSE IF is_last_state(new_grids)
        THEN [reward |-> rew, state |-> None, GAME_MAP |-> pulled.GAME_MAP,
              raises |-> None]
        ELSE [reward |-> rew, state |-> State(new_grids, new_location),
              GAME_MAP |-> pulled.GAME_MAP, raises |-> None]

\* State.move with the global list gm: (reward, new state) and the list
\* afterwards, or the AssertionError NEXT_GRID raises on a GAME_MAP that is None
move(self, act, gm) ==
    LET rew          == get_reward(self, act)
        new_location == pair(stand_row, _update_location(self.player_location, act)[1])
        pulled       == NEXT_GRID(gm, TRUE)
        new_grids    == pair(self.grids[1], pulled.ret)
    IN  IF rew = 0
        THEN [reward |-> rew, state |-> None, GAME_MAP |-> gm, raises |-> None]
        ELSE IF pulled.ret = AssertionError
        THEN [reward |-> None, state |-> None, GAME_MAP |-> gm,
              raises |-> AssertionError]
        ELSE IF is_last_state(new_grids)
        THEN [reward |-> rew, state |-> None, GAME_MAP |-> pulled.GAME_MAP,
              raises |-> None]
        ELSE [reward |-> rew, state |-> State(new_grids, new_location),
              GAME_MAP |-> pulled.GAME_MAP, raises |-> None]

\* ------------------------------------------------------------- driver
\* str.lower on the tokens the driver is fed
lower(s) ==
    CASE s = "L" -> "l" [] s = "R" -> "r" [] s = "J" -> "j"
      [] s = "D" -> "d" [] s = "S" -> "s" [] s = "X" -> "x"
      [] OTHER -> s

\* the dict of str_to_action
actions == [m \in {"l", "r", "j", "d", "s"} |->
              CASE m = "l" -> LEFT [] m = "r" -> RIGHT [] m = "j" -> JUMP
                [] m = "d" -> DUCK [] OTHER -> STAY]

\* the exception str_to_action raises
KeyError == <<"KeyError">>

\* str_to_action that falls back to STAY on an unknown token
str_to_action_default(m) ==
    IF lower(m) \notin DOMAIN actions THEN STAY ELSE actions[lower(m)]

\* str_to_action: the Action, or KeyError when it raises
str_to_action(m) ==
    IF lower(m) \notin DOMAIN actions THEN KeyError ELSE actions[lower(m)]

\* tokens typed at the prompt
Tokens == {"l", "r", "j", "d", "s", "J", "x", "X"}

\* courses the level source may supply: main reads game_map[0] and game_map[1]
Courses == UNION {[1..n -> SampleGrids] : n \in 2..MaxCourse}

\* main, lines 11-18: the state on first reaching the while loop
Init ==
    /\ course \in Courses
    /\ GAME_MAP = course
    /\ state = State(pair(course[1], course[2]), START_LOCATION)
    /\ reward = None
    /\ action = None
    /\ total_moves = 0
    /\ pc = "loop"
    /\ ret = None
    /\ token = None
    /\ sims = None

\* one iteration of the while loop with a token that str_to_action accepts
Turn(m) ==
    /\ pc = "loop"
    /\ state # None
    /\ str_to_action(m) # KeyError
    /\ token' = m
    /\ LET r == move(state, str_to_action(m), GAME_MAP)
       IN  /\ action' = str_to_action(m)
           /\ IF r.raises = AssertionError
              THEN /\ pc' = "aborted"
                   /\ UNCHANGED <<GAME_MAP, state, reward, total_moves>>
              ELSE /\ reward' = r.reward
                   /\ state' = r.state
                   /\ GAME_MAP' = r.GAME_MAP
                   /\ total_moves' = total_moves + 1
                   /\ pc' = pc
    /\ UNCHANGED <<course, ret, sims>>

\* an iteration whose token str_to_action rejects: KeyError leaves main
BadInput(m) ==
    /\ pc = "loop"
    /\ state # None
    /\ str_to_action(m) = KeyError
    /\ token' = m
    /\ pc' = "aborted"
    /\ UNCHANGED <<GAME_MAP, state, reward, action, total_moves, course, ret, sims>>

\* the loop test fails: game_over is printed and main returns
GameOver ==
    /\ pc = "loop"
    /\ state = None
    /\ pc' = "done"
    /\ UNCHANGED <<GAME_MAP, state, reward, action, total_moves, course, ret, token, sims>>

Next ==
    \/ \E m \in Tokens : Turn(m)
    \/ \E m \in Tokens : BadInput(m)
    \/ GameOver

Spec == Init /\ [][Next]_vars

\* ------------------------------------------------- function harnesses
\* window pairs fed to get_reward: every resolution grid against the sample
\* lookaheads and the absent one, and every lookahead grid against the
\* sample resolution grids
RewardWindows ==
    {pair(g0, g1) : g0 \in AllGrids, g1 \in SampleGrids \cup {None}}
        \cup {pair(g0, g1) : g0 \in SampleGrids, g1 \in AllGrids}

\* a State built directly from any window and any location
InitReward ==
    /\ state \in {State(w, p) : w \in RewardWindows, p \in AllLocations}
    /\ GAME_MAP = GAME_MAP_None
    /\ course = <<>>
    /\ reward = None
    /\ action = None
    /\ total_moves = 0
    /\ pc = "call"
    /\ ret = None
    /\ token = None
    /\ sims = None

\* state.get_reward(a)
Call_get_reward(a) ==
    /\ pc = "call"
    /\ ret' = get_reward(state, a)
    /\ action' = a
    /\ pc' = "returned"
    /\ UNCHANGED <<GAME_MAP, state, reward, total_moves, course, token, sims>>

NextReward == \E a \in Action : Call_get_reward(a)

SpecReward == InitReward /\ [][NextReward]_vars

\* any location against any single grid
InitCollides ==
    /\ state \in {State(pair(g, None), p) : g \in AllGrids, p \in AllLocations}
    /\ GAME_MAP = GAME_MAP_None
    /\ course = <<>>
    /\ reward = None
    /\ action = None
    /\ total_moves = 0
    /\ pc = "call"
    /\ ret = None
    /\ token = None
    /\ sims = None

\* state._collides(state.player_location, state.grids[0])
Call_collides ==
    /\ pc = "call"
    /\ ret' = _collides(state.player_location, state.grids[0])
    /\ pc' = "returned"
    /\ UNCHANGED <<GAME_MAP, state, reward, action, total_moves, course, token, sims>>

NextCollides == Call_collides

SpecCollides == InitCollides /\ [][NextCollides]_vars

\* any location, in a State over any sample grid
InitUpdate ==
    /\ state \in {State(pair(g, None), p) : g \in SampleGrids, p \in AllLocations}
    /\ GAME_MAP = GAME_MAP_None
    /\ course = <<>>
    /\ reward = None
    /\ action = None
    /\ total_moves = 0
    /\ pc = "call"
    /\ ret = None
    /\ token = None
    /\ sims = None

\* state._update_location(state.player_location, a)
Call_update_location(a) ==
    /\ pc = "call"
    /\ ret' = _update_location(state.player_location, a)
    /\ action' = a
    /\ pc' = "returned"
    /\ UNCHANGED <<GAME_MAP, state, reward, total_moves, course, token, sims>>

NextUpdate == \E a \in Action : Call_update_location(a)

SpecUpdate == InitUpdate /\ [][NextUpdate]_vars

\* NEXT_GRID called on the module as imported (GAME_MAP is None), on an
\* exhausted list and on every course
InitNextGrid ==
    /\ GAME_MAP \in {GAME_MAP_None, <<>>} \cup Courses
    /\ course = GAME_MAP
    /\ state = None
    /\ reward = None
    /\ action = None
    /\ total_moves = 0
    /\ pc = "call"
    /\ ret = None
    /\ token = None
    /\ sims = None

\* NEXT_GRID(drop): the assert ends the caller, any other call returns and
\* may be followed by another
Call_NEXT_GRID(drop) ==
    /\ pc = "call"
    /\ LET r == NEXT_GRID(GAME_MAP, drop)
       IN  /\ ret' = r.ret
           /\ GAME_MAP' = r.GAME_MAP
           /\ pc' = IF r.ret = AssertionError THEN "aborted" ELSE "call"
    /\ UNCHANGED <<state, reward, action, total_moves, course, token, sims>>

NextNextGrid == \E drop \in BOOLEAN : Call_NEXT_GRID(drop)

SpecNextGrid == InitNextGrid /\ [][NextNextGrid]_vars

\* ------------------------------------------------- two simulations
\* INIT_GAME(game_map): the value GAME_MAP is bound to
INIT_GAME(game_map) == game_map

\* courses of the two simulations
SimCourses == [1..2 -> {EmptyGrid, CenterGrid, FullGrid}]

\* one simulation of a process that runs two: its course, its own State and
\* last reward as in main, and beside them the State, reward and map the
\* same moves give when the simulation has GAME_MAP to itself
NewSim(c) ==
    [status |-> "new", course |-> c, state |-> None, reward |-> None,
     solo_state |-> None, solo_reward |-> None, solo_map |-> GAME_MAP_None]

\* the module as imported: GAME_MAP is None until INIT_GAME is called
InitTwo ==
    /\ sims \in {[i \in 1..2 |-> NewSim(IF i = 1 THEN c1 ELSE c2)] :
                    c1 \in SimCourses, c2 \in SimCourses}
    /\ GAME_MAP = GAME_MAP_None
    /\ state = None
    /\ reward = None
    /\ action = None
    /\ total_moves = 0
    /\ pc = "two"
    /\ course = <<>>
    /\ ret = None
    /\ token = None

\* main, lines 11-15, for simulation i
StartSim(i) ==
    /\ pc = "two"
    /\ sims[i].status = "new"
    /\ GAME_MAP' = INIT_GAME(sims[i].course)
    /\ LET first == State(pair(sims[i].course[1], sims[i].course[2]), START_LOCATION)
       IN  sims' = [sims EXCEPT ![i] =
                      [@ EXCEPT !.status = "active", !.state = first,
                                !.solo_state = first,
                                !.solo_map = INIT_GAME(sims[i].course)]]
    /\ UNCHANGED <<state, reward, action, total_moves, pc, course, ret, token>>

\* main, line 29, for simulation i
MoveSim(i, a) ==
    /\ pc = "two"
    /\ sims[i].status = "active"
    /\ sims[i].state.grids[0] # None
    /\ LET r    == move(sims[i].state, a, GAME_MAP)
           solo == IF sims[i].solo_state = None
                   THEN [reward |-> sims[i].solo_reward, state |-> None,
                         GAME_MAP |-> sims[i].solo_map, raises |-> None]
                   ELSE move(sims[i].solo_state, a, sims[i].solo_map)
       IN  IF r.raises = AssertionError
           THEN /\ pc' = "aborted"
                /\ UNCHANGED <<GAME_MAP, sims>>
           ELSE /\ GAME_MAP' = r.GAME_MAP
                /\ sims' = [sims EXCEPT ![i] =
                              [@ EXCEPT !.status = IF r.state = None THEN "over"
                                                  ELSE "active",
                                        !.state = r.state, !.reward = r.reward,
                                        !.solo_state = solo.state,
                                        !.solo_reward = solo.reward,
                                        !.solo_map = solo.GAME_MAP]]
                /\ pc' = pc
    /\ UNCHANGED <<state, reward, action, total_moves, course, ret, token>>

\* main, line 29, for a simulation whose window has lost its resolution
\* grid: grid[row, col] on None raises TypeError, which ends the process
TypeErrorSim(i) ==
    /\ pc = "two"
    /\ sims[i].status = "active"
    /\ sims[i].state.grids[0] = None
    /\ pc' = "aborted"
    /\ UNCHANGED <<GAME_MAP, state, reward, action, total_moves, course, ret, token, sims>>

NextTwo ==
    \/ \E i \in 1..2 : StartSim(i)
    \/ \E i \in 1..2, a \in Action : MoveSim(i, a)
    \/ \E i \in 1..2 : TypeErrorSim(i)

SpecTwo == InitTwo /\ [][NextTwo]_vars

\* ---------------------------------------------------------- properties
\* the reward rule as the specification words it
Clamp(x) == IF x < 0 THEN 0 ELSE IF x > 2 THEN 2 ELSE x
Candidate(p, a) == pair(Clamp(p[0] + a[0]), Clamp(p[1] + a[1]))
Blocked(p, g) == g[p[0]][p[1]] = 1 \/ (p[0] = 1 /\ g[2][p[1]] = 1)
ExpectedReward(p, a, resolution, lookahead) ==
    IF Blocked(Candidate(p, a), resolution) THEN 0
    ELSE IF lookahead = None THEN 1
    ELSE IF \A b \in Action : Blocked(Candidate(Candidate(p, a), b), lookahead) THEN 1
    ELSE 2

\* a step of main that made a move call
MoveStep == total_moves' = total_moves + 1

\* C1: the reward returned for any position, action, resolution grid and
\* lookahead grid (present or absent) is 0 when the clamped candidate
\* collides with the resolution grid, else 1 when the lookahead is absent or
\* all five follow-ups from the candidate collide with it, else 2; nothing
\* else is returned.
C1_RewardRule ==
    pc = "returned" =>
        /\ ret \in {0, 1, 2}
        /\ ret = ExpectedReward(state.player_location, action,
                                state.grids[0], state.grids[1])

\* C1 witness: a jump that survives the resolution grid and is scored 2
\* because one follow-up from the airborne candidate is open
C1_Witness ==
    /\ pc = "returned"
    /\ ret = 2
    /\ action = JUMP
    /\ state.grids[1] = CornerGrid

\* C10: collides(position, grid) is true exactly when the position's own
\* cell is occupied, or the position is standing (row 1) and the cell of
\* row 2 in its column is occupied; airborne and ducking positions collide
\* only at their own cell.
C10_CollisionRule ==
    pc = "returned" =>
        LET row  == state.player_location[0]
            col  == state.player_location[1]
            grid == state.grids[0]
        IN  /\ ret <=> (grid[row][col] = 1 \/ (row = 1 /\ grid[2][col] = 1))
            /\ row \in {0, 2} => (ret <=> grid[row][col] = 1)

\* C10 witness: a standing position with an open own cell is hit by the
\* obstacle below it
C10_Witness ==
    /\ pc = "returned"
    /\ state.player_location[0] = 1
    /\ state.grids[0][1][state.player_location[1]] = 0
    /\ state.grids[0][2][state.player_location[1]] = 1
    /\ ret = TRUE

\* main is at the prompt with an Active state after n move calls, all of
\* which were successful
Active == pc = "loop" /\ state # None

\* C2 (as claimed): after N successful moves the MapQueue is exactly N
\* grids shorter than the supplied course, also near the end of the course.
C2_ExactlyN ==
    Active => Len(GAME_MAP) = Len(course) - total_moves

\* C2 (amended): a successful move removes exactly one grid while the queue
\* is non-empty and none once it is empty, so after N successful moves the
\* queue is min(N, initial length) grids shorter.
C2_AtMostN ==
    /\ Active => Len(GAME_MAP) = max(Len(course) - total_moves, 0)
    /\ Len(GAME_MAP) <= Len(course)

\* C2 witness: an Active state reached by a successful move that found the
\* queue already empty
C2_Witness ==
    /\ Active
    /\ total_moves > Len(course)
    /\ Len(GAME_MAP) = 0

\* C3: the first two grids are removed from the MapQueue when the initial
\* window is built, so in a crash-free run the k-th move resolves the k-th
\* grid of the course: in course order, none twice.
C3_CourseOrder ==
    Active =>
        /\ total_moves + 1 <= Len(course)
        /\ state.grids[0] = course[total_moves + 1]

\* C4: when move returns reward 2 with a successor Active state, some action
\* on that successor does not crash.
C4_Reward2Survives ==
    (Active /\ total_moves >= 1) =>
        (reward = 2 => \E b \in Action : move(state, b, GAME_MAP).reward >= 1)

\* C5: when move returns reward 1 with the lookahead present, every action
\* on the returned successor crashes.
C5_Reward1Dies ==
    (Active /\ total_moves >= 1) =>
        (reward = 1 => \A b \in Action : move(state, b, GAME_MAP).reward = 0)

\* C6: a move with reward 0 ends in Terminal and leaves the MapQueue's
\* contents and length as they were.
C6_CrashKeepsQueue ==
    [][(MoveStep /\ reward' = 0) => (state' = None /\ GAME_MAP' = GAME_MAP)]_vars

\* C6 witness: a crash with grids still queued
C6_Witness ==
    /\ total_moves >= 1
    /\ reward = 0
    /\ state = None
    /\ Len(GAME_MAP) > 0

\* C7: on a course of exactly two grids, a successful move made while both
\* grids are held in the window and nothing further is available from the
\* MapQueue ends the game: it returns Terminal, carrying the reward computed
\* for that move, not a successor Active state.
C7_OneMoveEnds ==
    [][(/\ Len(course) = 2
        /\ MoveStep
        /\ state.grids[0] # None
        /\ state.grids[1] # None
        /\ GAME_MAP = <<>>
        /\ reward' # 0) =>
          /\ state' = None
          /\ reward' = ExpectedReward(state.player_location, action',
                                      state.grids[0], state.grids[1])]_vars

\* C8: a move with non-zero reward returns Terminal exactly when the new
\* window's resolution slot is absent, that is when the lookahead grid was
\* absent before the move; otherwise it returns a successor Active state.
C8_TerminalIffLookaheadAbsent ==
    [][(MoveStep /\ reward' # 0) =>
          /\ (state' = None) <=> (state.grids[1] = None)
          /\ state' # None => state'.grids[0] # None]_vars

\* C8 witness: the course was completed by a move made without a lookahead
C8_Witness ==
    /\ total_moves >= 1
    /\ reward \in {1, 2}
    /\ state = None
    /\ pc = "done"

\* C9: a successful move shifts the window by one: the successor's
\* resolution grid is the previous lookahead grid and its lookahead grid is
\* the head of the MapQueue before the move, which the move removes, or
\* absent when the queue was empty.
C9_WindowShift ==
    [][(MoveStep /\ state' # None) =>
          /\ state'.grids[0] = state.grids[1]
          /\ IF Len(GAME_MAP) > 0
             THEN state'.grids[1] = Head(GAME_MAP) /\ GAME_MAP' = Tail(GAME_MAP)
             ELSE state'.grids[1] = None /\ GAME_MAP' = GAME_MAP]_vars

\* C9 witness: a successor whose lookahead was pulled while the other grids
\* of the course are still distinguishable
C9_Witness ==
    /\ Active
    /\ total_moves = 1
    /\ state.grids[0] = course[2]
    /\ state.grids[1] = course[1]
    /\ course[1] # course[2]

\* C11: every successor Active state, whatever action produced it, stores a
\* position with row 1 whose column is the previous column plus the
\* action's column delta, clamped to [0,2].
C11_PostureReset ==
    /\ [](Active => state.player_location[0] = 1)
    /\ [][(MoveStep /\ state' # None) =>
             state'.player_location =
                 pair(1, Clamp(state.player_location[1] + action'[1]))]_vars

\* C11 witness: a successor reached by a jump stands again
C11_Witness ==
    /\ Active
    /\ total_moves >= 1
    /\ action = JUMP
    /\ state.player_location[0] = 1

\* C12: the lookahead slot becomes absent only when the course is
\* exhausted, and permanently: once an Active state has an absent
\* lookahead, no later Active state of the run has a present one.
C12_LookaheadAbsentOnce ==
    /\ [](Active => (state.grids[1] = None => GAME_MAP = <<>>))
    /\ [][(state # None /\ state' # None /\ state.grids[1] = None) =>
             state'.grids[1] = None]_vars

\* C12 witness: an Active state whose lookahead has become absent
C12_Witness ==
    /\ Active
    /\ total_moves >= 1
    /\ state.grids[0] # None
    /\ state.grids[1] = None
    /\ GAME_MAP = <<>>

\* C13: the position update clamps each axis on its own to [0,2]: the
\* result is (min(2, max(0, row + drow)), min(2, max(0, col + dcol))), so
\* JUMP at row 0, DUCK at row 2, LEFT at col 0 and RIGHT at col 2 leave that
\* coordinate as it was, STAY leaves the column as it was, and the result
\* never leaves the 3x3 frame.
C13_ClampedUpdate ==
    pc = "returned" =>
        LET row == state.player_location[0]
            col == state.player_location[1]
        IN  /\ ret[0] = Clamp(row + action[0])
            /\ ret[1] = Clamp(col + action[1])
            /\ (action = JUMP /\ row = 0) => ret[0] = row
            /\ (action = DUCK /\ row = 2) => ret[0] = row
            /\ (action = LEFT /\ col = 0) => ret[1] = col
            /\ (action = RIGHT /\ col = 2) => ret[1] = col
            /\ action = STAY => ret[1] = col
            /\ ret[0] \in 0..2 /\ ret[1] \in 0..2

\* C13 witness: LEFT in the leftmost lane is clamped
C13_Witness ==
    /\ pc = "returned"
    /\ action = LEFT
    /\ state.player_location[1] = 0
    /\ ret = state.player_location

\* C14: the reward of a move is a function of the action, the position, the
\* resolution grid and the lookahead grid alone: whatever is left in the
\* MapQueue and whatever moves came before, it is the value the reward rule
\* gives for these four inputs, and a move that does nothing but compute the
\* reward (a crash) leaves the MapQueue as it was.
C14_RewardPure ==
    [][MoveStep =>
          /\ reward' = ExpectedReward(state.player_location, action',
                                      state.grids[0], state.grids[1])
          /\ reward' = 0 => GAME_MAP' = GAME_MAP]_vars

\* C14 witness: a reward computed after earlier moves, with a lookahead in
\* the window that differs from the head of a non-empty MapQueue
C14_Witness ==
    /\ total_moves >= 2
    /\ reward = 1
    /\ Active
    /\ Len(GAME_MAP) >= 1
    /\ Head(GAME_MAP) # state.grids[0]

\* the strings the prompt names as moves, in either letter case
AcceptedTokens == {"l", "r", "j", "d", "s", "L", "R", "J", "D", "S"}

\* C15: a token outside the accepted set is rejected before anything is
\* changed: the step that reads it leaves the State (window and position)
\* and the MapQueue as they were and produces no reward.
C15_InvalidTokenNoTransition ==
    [][token' \notin AcceptedTokens =>
          UNCHANGED <<GAME_MAP, state, reward, action, total_moves>>]_vars

\* C15 witness: an unknown token was read after a successful move, with
\* grids still queued
C15_Witness ==
    /\ total_moves >= 1
    /\ token = "x"
    /\ state # None
    /\ reward \in {1, 2}
    /\ Len(GAME_MAP) >= 1

\* C16: an invalid token is recoverable at the driver loop: the step that
\* reads it does not end the run, main stays at the prompt in the same
\* Active state, where a valid token can still be resolved by move.
C16_InvalidTokenRecoverable ==
    [][token' \notin AcceptedTokens =>
          /\ pc' = "loop"
          /\ state' = state
          /\ state' # None]_vars

\* q is what is left of c after removing some of its first elements
IsSuffix(q, c) ==
    /\ Len(q) <= Len(c)
    /\ q = SubSeq(c, Len(c) - Len(q) + 1, Len(c))

\* C17: the MapQueue is consumed front to back and changed at most once per
\* move: a consuming next() removes and returns exactly the head (absent,
\* and no change, when empty), a non-consuming next() returns the head and
\* changes nothing, so after any sequence of moves the queue is a suffix of
\* the supplied sequence, shorter by at most one grid per move call.
C17_FrontToBack ==
    /\ [](/\ IsSuffix(GAME_MAP, course)
          /\ Len(course) - Len(GAME_MAP) <= total_moves
          /\ LET head == IF GAME_MAP = <<>> THEN None ELSE GAME_MAP[1]
                 rest == IF GAME_MAP = <<>> THEN GAME_MAP
                         ELSE SubSeq(GAME_MAP, 2, Len(GAME_MAP))
             IN  /\ NEXT_GRID(GAME_MAP, TRUE) = [ret |-> head, GAME_MAP |-> rest]
                 /\ NEXT_GRID(GAME_MAP, FALSE) = [ret |-> head, GAME_MAP |-> GAME_MAP])
    /\ [][GAME_MAP' # GAME_MAP =>
             /\ MoveStep
             /\ GAME_MAP # <<>>
             /\ GAME_MAP' = Tail(GAME_MAP)]_vars

\* C17 witness: two grids consumed, one still queued
C17_Witness ==
    /\ total_moves = 2
    /\ Len(course) = 3
    /\ GAME_MAP = <<course[3]>>
    /\ course[3] # course[1]

\* C18: two simulations, each started on its own course and moved in any
\* interleaving, do not interfere: each sees the windows, rewards and
\* terminal outcome it sees when run alone.
C18_NoInterference ==
    \A i \in 1..2 :
        sims[i].status # "new" =>
            /\ sims[i].state = sims[i].solo_state
            /\ sims[i].reward = sims[i].solo_reward

\* what a run can still consume: the grids queued plus the lookahead slot
Rank(st, gm) == Len(gm) + (IF st.grids[1] = None THEN 0 ELSE 1)

\* C19: every run terminates: main makes at most (grids in the MapQueue at
\* start) + 2 move calls, because every move that returns a successor either
\* removes a grid from the queue or makes the lookahead absent; a move is
\* made only while the State is Active, and when the rank is used up the
\* move returns None, which is the only way main leaves its loop for
\* game_over.
C19_Terminates ==
    /\ [](total_moves <= Len(course) + 2)
    /\ [](pc = "done" => state = None)
    /\ [](Active => total_moves + Rank(state, GAME_MAP) <= Len(course) + 1)
    /\ [][MoveStep =>
             /\ state # None
             /\ state' # None => Rank(state', GAME_MAP') < Rank(state, GAME_MAP)
             /\ Rank(state, GAME_MAP) = 0 => state' = None]_vars

\* C19 witness: a run that took the largest number of moves and was left
\* through the loop test
C19_Witness ==
    /\ pc = "done"
    /\ state = None
    /\ total_moves = Len(course) + 2

\* C20: every reachable Active state has a present resolution grid: from a
\* window of two present grids no sequence of moves produces a successor
\* whose resolution slot is absent (with the lookahead present or not), so
\* move never evaluates a collision against an absent resolution grid.
C20_ResolutionPresent ==
    /\ [](Active => state.grids[0] # None)
    /\ [][MoveStep =>
             /\ state.grids[0] # None
             /\ state' # None => state'.grids[0] # None]_vars

\* C20 witness: the last Active state of a full run, reached by the move
\* that emptied the queue: its lookahead is absent, its resolution grid is
\* a grid of the course
C20_Witness ==
    /\ Active
    /\ total_moves = Len(course) + 1
    /\ state.grids[1] = None
    /\ \E i \in 1..Len(course) : state.grids[0] = course[i]

====
